---- MODULE Spec2Model ----
(***************************************************************************)
(* Model of darknet_crawler.py: the DarknetCrawler class (SQLite frontier   *)
(* table `urls`, the in-memory queue.Queue, the worker threads started by   *)
(* crawl()) and the __main__ driver.                                        *)
(*                                                                          *)
(* Granularity: one step per statement that touches shared state (the       *)
(* sqlite connection, the Queue, the lock).  The connection is shared by    *)
(* all threads (check_same_thread=False), so every thread sees the          *)
(* uncommitted rows of the connection (db); disk is what has been           *)
(* committed and is what a later process finds when it opens the file.      *)
(*                                                                          *)
(* Spec      : processes run one after the other on one database file,     *)
(*             each with add_seed calls, crawl() and its worker threads;    *)
(*             delay is 0, so time puts no limit on the interleavings.      *)
(* SpecTimed : the same with a delay of at least one unit and a clock.      *)
(* SpecApi   : add_seed, mark_visited and enqueue_new called directly, one  *)
(*             after the other, on a database file holding any table.       *)
(* SpecErr   : Spec with exceptions other than KeyboardInterrupt in join(). *)
(* SpecStore : Spec with sqlite3 errors on the open connection.             *)
(* SpecParse : parse_links called directly on any page of the href universe.*)
(* SpecFair  : one uninterrupted process under fair scheduling.             *)
(***************************************************************************)
EXTENDS Integers, Sequences, FiniteSets, TLC

\* ---------------------------------------------------------------- bounds
NumWorkers == 2      \* crawl(threads=NumWorkers)
MaxSeeds   == 2      \* add_seed calls made before crawl() in one process
MaxDelay   == 2      \* largest delay (in clock ticks) given to __init__
MaxQueue   == 2      \* queue length up to which a client calls the methods directly

Workers == 1..NumWorkers
NoWorker == 0
NoUrl == "-"

\* ---------------------------------------------------------------- the web
\* URLs the crawl can meet, and the hrefs of the page each one serves.
URLs == {"a", "b", "c"}
MailTo == "mailto:x"

\* The same urls with a fragment, and the href that names a fragment of the
\* page it stands on.
FragUrls == {"a#x", "b#x", "c#x"}
SameDoc == "#x"
Hrefs == URLs \cup FragUrls \cup {SameDoc, MailTo}

\* urldefrag(u).url and u with the fragment x put in place of its own.
Resource(u) ==
    CASE u = "a#x" -> "a"
      [] u = "b#x" -> "b"
      [] u = "c#x" -> "c"
      [] OTHER     -> u
WithFragment(u) ==
    CASE Resource(u) = "a" -> "a#x"
      [] Resource(u) = "b" -> "b#x"
      [] Resource(u) = "c" -> "c#x"
      [] OTHER             -> u
PageHrefs(u) ==
    CASE u = "a" -> {"b", "c", MailTo}
      [] u = "b" -> {"c", "a"}
      [] OTHER   -> {}

\* The urls given to add_seed by __main__'s caller.
SeedUrls == {"a", "b"}

VARIABLES
    db,          \* rows of table urls as seen through self.conn
    disk,        \* committed rows of table urls (the database file)
    closed,      \* self.conn.close() has been called
    queue,       \* self.queue: the queued items, oldest first
    unfinished,  \* self.queue.unfinished_tasks
    lock,        \* holder of self.lock, NoWorker when free
    mainpc,      \* position of the main thread
    cancelled,   \* KeyboardInterrupt was caught in crawl()
    seeds,       \* add_seed calls made by the current process
    wpc,         \* position of each worker thread
    wurl,        \* worker local `url`
    wlinks,      \* links still to be inserted by the worker's enqueue_new
    fetched,     \* history: URLs fetch() was called for in this process
    enqPut,      \* history: URLs enqueue_new has put on the queue in this process
    failed,      \* history: URLs whose fetch returned '' in this process
    startVisited, \* history: the urls whose row was visited when this process
                 \* opened the database file
    retryDue,    \* history: URLs a failed fetch of the previous process left
                 \* unvisited and this process has not put on the queue yet
    delay,       \* self.delay
    timer,       \* time each worker's time.sleep(self.delay) still has to run
    sinceReq,    \* history: time since the last request was sent, up to delay
    api,         \* history: the last method a client called directly, with
                 \* its argument and the table before the call
    parsed       \* history: the last direct call of parse_links, with its
                 \* arguments and the set it returned

vars == <<db, disk, closed, queue, unfinished, lock, mainpc, cancelled,
          seeds, wpc, wurl, wlinks, fetched, enqPut, failed, retryDue,
          startVisited, delay, timer, sinceReq, api, parsed>>

\* ------------------------------------------------------------ the table
Row(u, v) == [url |-> u, visited |-> v]
HasRecord(store, u) == \E r \in store : r.url = u

\* Mutant: INSERT OR REPLACE, which resets the row of a known url.
InsertOrReplace(store, u) == {r \in store : r.url # u} \cup {Row(u, 0)}

\* INSERT OR IGNORE INTO urls (url, visited) VALUES (?, 0): url is the
\* PRIMARY KEY, so the statement changes nothing when a row for u exists.
InsertOrIgnore(store, u) ==
    IF HasRecord(store, u) THEN store ELSE store \cup {Row(u, 0)}

\* Mutant: the rowcount test dropped, every link counts as inserted.
RowCountAlways(store, u) == 1

\* c.rowcount after that INSERT OR IGNORE.
RowCount(store, u) == IF HasRecord(store, u) THEN 0 ELSE 1

\* Mutant: an upsert, which creates the row of an unknown url.
UpsertVisited(store, u) == {r \in store : r.url # u} \cup {Row(u, 1)}

\* UPDATE urls SET visited=1 WHERE url=?
UpdateVisited(store, u) ==
    {IF r.url = u THEN Row(r.url, 1) ELSE r : r \in store}

\* Mutant: the lookup reads every row as not visited.
SelectUnvisited(store, u) == IF HasRecord(store, u) THEN 0 ELSE -1

\* SELECT visited FROM urls WHERE url=? ; fetchone(): -1 stands for None.
SelectVisited(store, u) ==
    IF HasRecord(store, u)
    THEN (CHOOSE r \in store : r.url = u).visited
    ELSE -1

\* ------------------------------------------------------------ parse_links
\* urljoin(base_url, href): an absolute href is returned as it is, fragment
\* included; a fragment-only href is resolved to the base with that fragment.
urljoin(base_url, href) ==
    IF href = SameDoc THEN WithFragment(base_url) ELSE href

\* urlparse(href).scheme in ('http', 'https'); the host test is a tautology.
IsHttp(href) == href \in URLs \cup FragUrls

\* The set of urljoin(base_url, a['href']) that pass the scheme test.
parse_links(html, base_url) ==
    {h \in {urljoin(base_url, a) : a \in html} : IsHttp(h)}

\* ------------------------------------------------------------ Queue
\* Queue.task_done raises ValueError when unfinished_tasks is already 0.
TaskDoneRaises == unfinished = 0

NoCall == [op |-> "none", url |-> NoUrl, before |-> {}]
NoParse == [html |-> {}, base_url |-> NoUrl, links |-> {}]

\* ------------------------------------------------------------ Init
\* __init__ of the first process on a fresh database file, with delay d.
InitWith(d) ==
    /\ db = {}
    /\ disk = {}
    /\ closed = FALSE
    /\ queue = <<>>
    /\ unfinished = 0
    /\ lock = NoWorker
    /\ mainpc = "setup"
    /\ cancelled = FALSE
    /\ seeds = 0
    /\ wpc = [w \in Workers |-> "get"]
    /\ wurl = [w \in Workers |-> NoUrl]
    /\ wlinks = [w \in Workers |-> {}]
    /\ fetched = {}
    /\ enqPut = {}
    /\ failed = {}
    /\ retryDue = {}
    /\ startVisited = {}
    /\ delay = d
    /\ timer = [w \in Workers |-> 0]
    /\ sinceReq = d
    /\ api = NoCall
    /\ parsed = NoParse

\* --delay 0: the sleeps take no time and every interleaving is possible.
Init == InitWith(0)

hist == <<fetched, enqPut, failed, retryDue, startVisited>>
clock == <<delay, timer, sinceReq, api, parsed>>
mainv == <<mainpc, cancelled, seeds>>
workerv == <<wpc, wurl, wlinks>>

\* ------------------------------------------------------------ main thread
\* add_seed(url): insert under the lock, commit, then queue.put(url).
AddSeed(u) ==
    /\ mainpc = "setup"
    /\ seeds < MaxSeeds
    /\ db' = InsertOrIgnore(db, u)
    /\ disk' = db'
    /\ queue' = Append(queue, u)
    /\ unfinished' = unfinished + 1
    /\ retryDue' = retryDue \ {u}
    /\ seeds' = seeds + 1
    /\ UNCHANGED <<closed, lock, mainpc, cancelled, workerv, fetched, enqPut,
                   failed, startVisited, clock>>

\* crawl(): the worker threads are started and the main thread enters join().
StartCrawl ==
    /\ mainpc = "setup"
    /\ seeds > 0
    /\ mainpc' = "join"
    /\ UNCHANGED <<db, disk, closed, queue, unfinished, lock, cancelled, seeds,
                   workerv, hist, clock>>

\* queue.join() returns: unfinished_tasks is 0.
JoinReturn ==
    /\ mainpc = "join"
    /\ unfinished = 0
    /\ mainpc' = "finally"
    /\ UNCHANGED <<db, disk, closed, queue, unfinished, lock, cancelled, seeds,
                   workerv, hist, clock>>

\* KeyboardInterrupt raised in join() and caught.
Interrupt ==
    /\ mainpc = "join"
    /\ mainpc' = "finally"
    /\ cancelled' = TRUE
    /\ UNCHANGED <<db, disk, closed, queue, unfinished, lock, seeds, workerv,
                   hist, clock>>

\* Any other exception raised while join() waits: no except clause matches
\* it, the finally clause runs and the exception then leaves crawl().
JoinError ==
    /\ mainpc = "join"
    /\ mainpc' = "raising"
    /\ UNCHANGED <<db, disk, closed, queue, unfinished, lock, cancelled, seeds,
                   workerv, hist, clock>>

\* Mutant: the close placed after the try statement, which an exception
\* leaving crawl() never reaches.
CloseAfterTry ==
    /\ mainpc \in {"finally", "raising"}
    /\ closed' = (mainpc = "finally")
    /\ db' = disk
    /\ mainpc' = "closed"
    /\ UNCHANGED <<disk, queue, unfinished, lock, cancelled, seeds, workerv,
                   hist, clock>>

\* finally: self.conn.close() (USE_SELENIUM is False, so self.driver is None
\* and `if self.driver` is skipped); no lock is taken and the rows of an open
\* transaction are rolled back. Then crawl() returns or re-raises.
Close ==
    /\ mainpc \in {"finally", "raising"}
    /\ closed' = TRUE
    /\ db' = disk
    /\ mainpc' = "closed"
    /\ UNCHANGED <<disk, queue, unfinished, lock, cancelled, seeds, workerv,
                   hist, clock>>

\* crawl() has returned: the process ends, its daemon threads with it, and a
\* new process runs __init__ on the same database file.
Restart ==
    /\ mainpc = "closed"
    /\ db' = disk
    /\ closed' = FALSE
    /\ queue' = <<>>
    /\ unfinished' = 0
    /\ lock' = NoWorker
    /\ mainpc' = "setup"
    /\ cancelled' = FALSE
    /\ seeds' = 0
    /\ wpc' = [w \in Workers |-> "get"]
    /\ wurl' = [w \in Workers |-> NoUrl]
    /\ wlinks' = [w \in Workers |-> {}]
    /\ fetched' = {}
    /\ enqPut' = {}
    /\ retryDue' = {u \in failed : Row(u, 0) \in disk}
    /\ startVisited' = {u \in URLs : Row(u, 1) \in disk}
    /\ failed' = {}
    /\ timer' = [w \in Workers |-> 0]
    /\ sinceReq' = delay
    /\ UNCHANGED <<disk, delay, api, parsed>>

\* ------------------------------------------------------------ worker
\* url = self.queue.get()
Get(w) ==
    /\ mainpc # "setup"
    /\ wpc[w] = "get"
    /\ queue # <<>>
    /\ wurl' = [wurl EXCEPT ![w] = Head(queue)]
    /\ queue' = Tail(queue)
    /\ wpc' = [wpc EXCEPT ![w] = "check"]
    /\ UNCHANGED <<db, disk, closed, unfinished, lock, mainv, wlinks, hist,
                   clock>>

\* The visited test: cursor(), SELECT and fetchone(), with no lock taken.
\* A visited url goes to the task_done() of that branch; any other url is
\* passed to self.fetch(url), which starts with time.sleep(self.delay).  On a
\* closed connection cursor() raises, which the except clause prints.
CheckVisited(w) ==
    /\ wpc[w] = "check"
    /\ IF closed
       THEN /\ wpc' = [wpc EXCEPT ![w] = "storeerr"]
            /\ UNCHANGED <<fetched, timer>>
       ELSE IF SelectVisited(db, wurl[w]) > 0
       THEN /\ wpc' = [wpc EXCEPT ![w] = "skip"]
            /\ UNCHANGED <<fetched, timer>>
       ELSE /\ wpc' = [wpc EXCEPT ![w] = "fetch"]
            /\ fetched' = fetched \cup {wurl[w]}
            /\ timer' = [timer EXCEPT ![w] = delay]
    /\ UNCHANGED <<db, disk, closed, queue, unfinished, lock, mainv, wurl,
                   wlinks, enqPut, failed, retryDue, startVisited, delay,
                   sinceReq, api, parsed>>

\* The task_done() of the visited branch; `continue` then runs the finally
\* clause.  A ValueError raised here is caught by the except clause.
SkipDone(w) ==
    /\ wpc[w] = "skip"
    /\ unfinished' = IF TaskDoneRaises THEN unfinished ELSE unfinished - 1
    /\ wpc' = [wpc EXCEPT ![w] = "finally"]
    /\ UNCHANGED <<db, disk, closed, queue, lock, mainv, wurl, wlinks, hist,
                   clock>>

\* The sleep is over, the request is sent and answered with the page;
\* links = self.parse_links(html, url).
FetchOk(w) ==
    /\ wpc[w] = "fetch"
    /\ timer[w] = 0
    /\ sinceReq' = 0
    /\ wlinks' = [wlinks EXCEPT ![w] = parse_links(PageHrefs(wurl[w]), wurl[w])]
    /\ wpc' = [wpc EXCEPT ![w] = "mark"]
    /\ UNCHANGED <<db, disk, closed, queue, unfinished, lock, mainv, wurl,
                   hist, delay, timer, api, parsed>>

\* The sleep is over, the request is sent and fails: fetch catches the
\* exception and returns '', and the worker prints the failure.
FetchFail(w) ==
    /\ wpc[w] = "fetch"
    /\ timer[w] = 0
    /\ sinceReq' = 0
    /\ failed' = failed \cup {wurl[w]}
    /\ wpc' = [wpc EXCEPT ![w] = "failed"]
    /\ UNCHANGED <<db, disk, closed, queue, unfinished, lock, mainv, wurl,
                   wlinks, fetched, enqPut, retryDue, startVisited, delay,
                   timer, api, parsed>>

\* mark_visited: with self.lock: cursor(); execute(UPDATE).
MarkUpdate(w) ==
    /\ wpc[w] = "mark"
    /\ lock = NoWorker
    /\ IF closed
       THEN /\ wpc' = [wpc EXCEPT ![w] = "storeerr"]
            /\ wlinks' = [wlinks EXCEPT ![w] = {}]
            /\ UNCHANGED <<db, lock>>
       ELSE /\ db' = UpdateVisited(db, wurl[w])
            /\ lock' = w
            /\ wpc' = [wpc EXCEPT ![w] = "markcommit"]
            /\ UNCHANGED wlinks
    /\ UNCHANGED <<disk, closed, queue, unfinished, mainv, wurl, hist, clock>>

\* mark_visited: self.conn.commit(), then the lock is released.
MarkCommit(w) ==
    /\ wpc[w] = "markcommit"
    /\ lock' = NoWorker
    /\ IF closed
       THEN /\ wpc' = [wpc EXCEPT ![w] = "storeerr"]
            /\ wlinks' = [wlinks EXCEPT ![w] = {}]
            /\ UNCHANGED disk
       ELSE /\ disk' = db
            /\ wpc' = [wpc EXCEPT ![w] = "enq"]
            /\ UNCHANGED wlinks
    /\ UNCHANGED <<db, closed, queue, unfinished, mainv, wurl, hist, clock>>

\* enqueue_new: one turn of `for link in links` under the lock (taken on the
\* first turn): INSERT OR IGNORE, and queue.put(link) when rowcount > 0.
EnqInsert(w, link) ==
    /\ wpc[w] = "enq"
    /\ lock \in {NoWorker, w}
    /\ link \in wlinks[w]
    /\ IF closed
       THEN /\ wpc' = [wpc EXCEPT ![w] = "storeerr"]
            /\ wlinks' = [wlinks EXCEPT ![w] = {}]
            /\ lock' = NoWorker
            /\ UNCHANGED <<db, queue, unfinished, enqPut, retryDue>>
       ELSE /\ db' = InsertOrIgnore(db, link)
            /\ IF RowCount(db, link) > 0
               THEN /\ queue' = Append(queue, link)
                    /\ unfinished' = unfinished + 1
                    /\ enqPut' = enqPut \cup {link}
                    /\ retryDue' = retryDue \ {link}
               ELSE UNCHANGED <<queue, unfinished, enqPut, retryDue>>
            /\ wlinks' = [wlinks EXCEPT ![w] = @ \ {link}]
            /\ lock' = w
            /\ UNCHANGED wpc
    /\ UNCHANGED <<disk, closed, mainv, wurl, fetched, failed, startVisited,
                   clock>>

\* enqueue_new: self.conn.commit() after the loop, then the lock is released.
EnqCommit(w) ==
    /\ wpc[w] = "enq"
    /\ lock \in {NoWorker, w}
    /\ wlinks[w] = {}
    /\ lock' = NoWorker
    /\ disk' = IF closed THEN disk ELSE db
    /\ wpc' = [wpc EXCEPT ![w] = IF closed THEN "storeerr" ELSE "finally"]
    /\ UNCHANGED <<db, closed, queue, unfinished, mainv, wurl, wlinks, hist,
                   clock>>

\* Mutant: a finally clause that does not call task_done().
FinallyForgets(w) ==
    /\ wpc[w] \in {"finally", "failed", "storeerr"}
    /\ wpc' = [wpc EXCEPT ![w] = "get"]
    /\ wurl' = [wurl EXCEPT ![w] = NoUrl]
    /\ UNCHANGED <<db, disk, closed, queue, unfinished, lock, mainv, wlinks,
                   hist, clock>>

\* finally: self.queue.task_done(), reached from every branch ("failed" is
\* the branch that printed the failed fetch, "storeerr" the except clause
\* that printed an sqlite3 error).  A ValueError raised here leaves the loop
\* and ends the thread.
Finally(w) ==
    /\ wpc[w] \in {"finally", "failed", "storeerr"}
    /\ IF TaskDoneRaises
       THEN /\ wpc' = [wpc EXCEPT ![w] = "dead"]
            /\ UNCHANGED unfinished
       ELSE /\ wpc' = [wpc EXCEPT ![w] = "get"]
            /\ unfinished' = unfinished - 1
    /\ wurl' = [wurl EXCEPT ![w] = NoUrl]
    /\ UNCHANGED <<db, disk, closed, queue, lock, mainv, wlinks, hist, clock>>

\* An sqlite3 error on the open connection (the file is locked by another
\* process, the disk is full): the visited lookup, or the first statement of
\* mark_visited or enqueue_new under the lock, raises; the except clause of
\* the worker prints it.
StoreError(w) ==
    /\ ~closed
    /\ \/ wpc[w] = "check"
       \/ wpc[w] \in {"mark", "enq"} /\ lock = NoWorker
    /\ wpc' = [wpc EXCEPT ![w] = "storeerr"]
    /\ wlinks' = [wlinks EXCEPT ![w] = {}]
    /\ UNCHANGED <<db, disk, closed, queue, unfinished, lock, mainv, wurl,
                   hist, clock>>

Worker(w) ==
    \/ Get(w)
    \/ CheckVisited(w)
    \/ SkipDone(w)
    \/ FetchOk(w)
    \/ FetchFail(w)
    \/ MarkUpdate(w)
    \/ MarkCommit(w)
    \/ \E link \in URLs : EnqInsert(w, link)
    \/ EnqCommit(w)
    \/ Finally(w)

Next ==
    \/ \E u \in SeedUrls : AddSeed(u)
    \/ StartCrawl
    \/ JoinReturn
    \/ Interrupt
    \/ Close
    \/ Restart
    \/ \E w \in Workers : Worker(w)

Spec == Init /\ [][Next]_vars

\* ------------------------------------------------------------ errors in join
\* Runs in which join() may also be left by an exception that crawl() does
\* not catch.
NextErr ==
    \/ Next
    \/ JoinError

SpecErr == Init /\ [][NextErr]_vars

\* ------------------------------------------------------------ store errors
\* Runs in which a statement on the open connection may fail.
NextStore ==
    \/ Next
    \/ \E w \in Workers : StoreError(w)

SpecStore == Init /\ [][NextStore]_vars

\* ------------------------------------------------------------ parse_links
\* parse_links called directly on a page with the hrefs html, served at
\* base_url.
CallParseLinks(html, base_url) ==
    /\ parsed' = [html |-> html, base_url |-> base_url,
                  links |-> parse_links(html, base_url)]
    /\ UNCHANGED <<db, disk, closed, queue, unfinished, lock, mainv, workerv,
                   hist, delay, timer, sinceReq, api>>

NextParse == \E html \in SUBSET Hrefs, base_url \in URLs :
                 CallParseLinks(html, base_url)

SpecParse == Init /\ [][NextParse]_vars

\* ------------------------------------------------------------ fair runs
\* One process that nobody interrupts, on a fresh database file or on the
\* file left by a process that was stopped after crawling "a".
ResumedStores == {{}, {Row("a", 1), Row("b", 0), Row("c", 0)}}

InitFair ==
    /\ db \in ResumedStores
    /\ disk = db
    /\ closed = FALSE
    /\ queue = <<>>
    /\ unfinished = 0
    /\ lock = NoWorker
    /\ mainpc = "setup"
    /\ cancelled = FALSE
    /\ seeds = 0
    /\ wpc = [w \in Workers |-> "get"]
    /\ wurl = [w \in Workers |-> NoUrl]
    /\ wlinks = [w \in Workers |-> {}]
    /\ fetched = {}
    /\ enqPut = {}
    /\ failed = {}
    /\ retryDue = {}
    /\ startVisited = {u \in URLs : Row(u, 1) \in db}
    /\ delay = 0
    /\ timer = [w \in Workers |-> 0]
    /\ sinceReq = 0
    /\ api = NoCall
    /\ parsed = NoParse

NextFair ==
    \/ \E u \in SeedUrls : AddSeed(u)
    \/ StartCrawl
    \/ JoinReturn
    \/ Close
    \/ \E w \in Workers : Worker(w)

\* The threads are scheduled fairly: a worker that can take a step takes one
\* (every fetch returns), join() returns once unfinished_tasks stays 0, and
\* the finally clause of crawl() runs.
Fairness ==
    /\ \A w \in Workers : WF_vars(Worker(w))
    /\ WF_vars(JoinReturn)
    /\ WF_vars(Close)

SpecFair == InitFair /\ [][NextFair]_vars /\ Fairness

\* ------------------------------------------------------------ timed runs
\* One unit of time passes: every running time.sleep has one unit less to go.
Tick ==
    /\ (\E w \in Workers : timer[w] > 0) \/ sinceReq < delay
    /\ timer' = [w \in Workers |-> IF timer[w] > 0 THEN timer[w] - 1 ELSE 0]
    /\ sinceReq' = IF sinceReq < delay THEN sinceReq + 1 ELSE delay
    /\ UNCHANGED <<db, disk, closed, queue, unfinished, lock, mainv, workerv,
                   hist, delay, api, parsed>>

\* __init__ with a delay of at least one unit of time.
InitTimed == \E d \in 1..MaxDelay : InitWith(d)

NextTimed ==
    \/ Next
    \/ Tick

SpecTimed == InitTimed /\ [][NextTimed]_vars

\* ------------------------------------------------------------ direct calls
\* The three store methods called one after the other by a single client
\* thread on an open crawler whose database file already holds any table.
Stores ==
    {s \in SUBSET [url : URLs, visited : {0, 1}] :
        \A r1 \in s : \A r2 \in s : r1.url = r2.url => r1 = r2}

InitApi ==
    /\ db \in Stores
    /\ disk = db
    /\ closed = FALSE
    /\ queue = <<>>
    /\ unfinished = 0
    /\ lock = NoWorker
    /\ mainpc = "setup"
    /\ cancelled = FALSE
    /\ seeds = 0
    /\ wpc = [w \in Workers |-> "get"]
    /\ wurl = [w \in Workers |-> NoUrl]
    /\ wlinks = [w \in Workers |-> {}]
    /\ fetched = {}
    /\ enqPut = {}
    /\ failed = {}
    /\ retryDue = {}
    /\ startVisited = {u \in URLs : Row(u, 1) \in db}
    /\ delay = 0
    /\ timer = [w \in Workers |-> 0]
    /\ sinceReq = 0
    /\ api = NoCall
    /\ parsed = NoParse

\* add_seed(u)
ApiAddSeed(u) ==
    /\ Len(queue) < MaxQueue
    /\ db' = InsertOrIgnore(db, u)
    /\ disk' = db'
    /\ queue' = Append(queue, u)
    /\ unfinished' = unfinished + 1
    /\ api' = [op |-> "add_seed", url |-> u, before |-> db]
    /\ UNCHANGED <<closed, lock, mainv, workerv, hist, delay, timer, sinceReq,
                   parsed>>

\* mark_visited(u): UPDATE and commit under the lock.
ApiMarkVisited(u) ==
    /\ db' = UpdateVisited(db, u)
    /\ disk' = db'
    /\ api' = [op |-> "mark_visited", url |-> u, before |-> db]
    /\ UNCHANGED <<closed, queue, unfinished, lock, mainv, workerv, hist, delay,
                   timer, sinceReq, parsed>>

\* enqueue_new({u}): INSERT OR IGNORE, put when rowcount > 0, commit.
ApiEnqueueNew(u) ==
    /\ Len(queue) < MaxQueue
    /\ db' = InsertOrIgnore(db, u)
    /\ disk' = db'
    /\ IF RowCount(db, u) > 0
       THEN /\ queue' = Append(queue, u)
            /\ unfinished' = unfinished + 1
       ELSE UNCHANGED <<queue, unfinished>>
    /\ api' = [op |-> "enqueue_new", url |-> u, before |-> db]
    /\ UNCHANGED <<closed, lock, mainv, workerv, hist, delay, timer, sinceReq,
                   parsed>>

NextApi ==
    \/ \E u \in URLs : ApiAddSeed(u)
    \/ \E u \in URLs : ApiMarkVisited(u)
    \/ \E u \in URLs : ApiEnqueueNew(u)

SpecApi == InitApi /\ [][NextApi]_vars

\* ------------------------------------------------------------ shorthands
\* Worker w is between popping a url and the end of its iteration for it.
InIteration(w) == wpc[w] \notin {"get", "dead"}
Step(w, from, to) == wpc[w] = from /\ wpc'[w] = to

\* ------------------------------------------------------------ claims

\* C1: in one process, fetch(u) is called at most once for each url u.
C1_NoDuplicateFetch ==
    [][\A w \in Workers : Step(w, "check", "fetch") => wurl[w] \notin fetched]_vars

\* C2: queue.join() returns only when the queue holds no url and no worker
\* is between popping a url and finishing its iteration.
C2_DrainedMeansIdle ==
    [][(mainpc = "join" /\ mainpc' = "finally" /\ ~cancelled')
         => (queue = <<>> /\ \A w \in Workers : ~InIteration(w))]_vars

\* C3: a url whose fetch failed in one process and whose record is unvisited
\* when that process ends has been put on the queue again by the time the
\* next process on the same database has drained its queue.
C3_FailedUrlRequeued ==
    (mainpc = "closed" /\ ~cancelled) => retryDue = {}

\* C4: the iteration of a failed fetch changes neither the table nor the
\* queue contents, and the worker goes on to its next queue.get().
C4_FailedFetchIsSkipped ==
    [][\A w \in Workers :
         /\ Step(w, "fetch", "failed") => (db' = db /\ disk' = disk /\ queue' = queue)
         /\ (wpc[w] = "failed" /\ wpc'[w] # "failed" /\ mainpc' = mainpc)
              => (db' = db /\ disk' = disk /\ queue' = queue /\ wpc'[w] = "get")]_vars

\* A turn of enqueue_new's loop by worker w for link l.
EnqTurn(w, l) ==
    /\ wpc[w] = "enq"
    /\ l \in wlinks[w]
    /\ l \notin wlinks'[w]
    /\ ~closed

\* C5: enqueue_new puts a link on the queue exactly when its insert created
\* the record, and no link is put twice by enqueue_new in one process; of
\* several workers whose link sets share an absent url, one inserts and puts.
C5_EnqueueOnceIffInserted ==
    [][\A w \in Workers : \A l \in URLs : EnqTurn(w, l) =>
         \/ /\ ~HasRecord(db, l)
            /\ db' = db \cup {Row(l, 0)}
            /\ queue' = Append(queue, l)
            /\ l \notin enqPut
         \/ /\ HasRecord(db, l)
            /\ db' = db
            /\ queue' = queue]_vars

\* Two workers are in enqueue_new with link sets that share url l, one of them
\* has inserted and put l, and the other still has its turn for l to come.
C5_Witness ==
    \E w1 \in Workers : \E w2 \in Workers \ {w1} : \E l \in URLs :
        /\ wpc[w1] = "enq" /\ wpc[w2] = "enq"
        /\ l \in wlinks[w1]
        /\ l \in parse_links(PageHrefs(wurl[w2]), wurl[w2]) \ wlinks[w2]
        /\ l \in enqPut

\* urls is keyed by url: no two rows of a store have the same url.
UniqueKey(store) == \A r1 \in store : \A r2 \in store : r1.url = r2.url => r1 = r2
\* Every row of old is in new, visited rows still visited.
Kept(old, new) ==
    \A r \in old : \E q \in new : q.url = r.url /\ q.visited >= r.visited

\* C6: the table holds at most one row per url; no row is removed and no
\* visited flag goes back to 0, in the database file at every step and in the
\* connection's view for as long as the connection is open.
C6_StoreMonotone ==
    /\ [](UniqueKey(db) /\ UniqueKey(disk))
    /\ [][Kept(disk, disk') /\ (~closed' => Kept(db, db'))]_vars

\* add_seed(u) has just been called for a url that was already visited.
C6_Witness ==
    /\ mainpc = "setup"
    /\ \E u \in URLs : queue = <<u>> /\ Row(u, 1) \in db

\* C7: after mark_visited(u) a second mark_visited(u) would leave the table
\* as it is, and mark_visited(u) for a url without a row changes nothing.
C7_MarkVisitedIdempotent ==
    api.op = "mark_visited" =>
        /\ UpdateVisited(db, api.url) = db
        /\ ~HasRecord(api.before, api.url) => db = api.before

\* mark_visited was called for a url that has no row in a table with rows.
C7_Witness ==
    /\ api.op = "mark_visited"
    /\ api.before # {}
    /\ ~HasRecord(api.before, api.url)

\* C8: add_seed(u) leaves the queue unchanged when u already has a record.
C8_SeedPutOnlyIfNew ==
    [][\A u \in SeedUrls : (AddSeed(u) /\ HasRecord(db, u)) => queue' = queue]_vars

\* C9: a request is sent at least `delay` units of time after the request
\* sent before it in the same process, whichever workers sent the two.
C9_GlobalPoliteness ==
    [][\A w \in Workers :
         (wpc[w] = "fetch" /\ wpc'[w] \in {"mark", "failed"}) => sinceReq >= delay]_vars

\* C10: self.conn.close() runs only when no worker is between popping a url
\* and the task_done() that ends its iteration.
C10_ClosedOnlyWhenIdle ==
    [][(~closed /\ closed') => \A w \in Workers : ~InIteration(w)]_vars

\* C11: once the KeyboardInterrupt has been caught in crawl(), no worker takes
\* another url from the queue.
C11_NoPopAfterCancel ==
    [][cancelled => \A w \in Workers : ~Step(w, "get", "check")]_vars

\* C12: whenever crawl() has returned or raised (drained, cancelled or an
\* error while waiting), the connection to the store is closed.
C12_CrawlEndsClosed == mainpc = "closed" => closed

C12_Witness == mainpc = "closed" /\ cancelled /\ closed /\ queue # <<>>

\* C13: a failed store statement in a worker iteration stops the crawl with
\* an error: the worker that met it does not go back to the queue for the
\* next url while crawl() is still waiting in join().
C13_StoreErrorStopsCrawl ==
    [][\A w \in Workers :
          ~(mainpc = "join" /\ mainpc' = "join" /\ Step(w, "storeerr", "get"))]_vars

\* C14: no two store operations are in progress at the same time: the
\* visited lookup runs, and the connection is closed, only while no worker
\* is inside mark_visited or enqueue_new (which hold the lock).
C14_StoreOpsSerialized ==
    [][/\ \A w \in Workers :
             (wpc[w] = "check" /\ wpc'[w] \in {"skip", "fetch"})
                 => lock = NoWorker
       /\ (~closed /\ closed') => lock = NoWorker]_vars

\* C15: a url whose row was visited when the process opened the store is
\* never fetched: every step of an iteration on such a url leads to the skip
\* branch or to the except/finally clauses, and leaves the table (connection
\* view and file), the queue and the set of fetched urls as they were.
C15_VisitedAtStartSkipped ==
    [][\A w \in Workers :
          (wurl[w] \in startVisited /\ wpc'[w] # wpc[w] /\ mainpc' = mainpc)
              => /\ wpc'[w] \in {"skip", "finally", "storeerr", "get", "dead"}
                 /\ db' = db
                 /\ disk' = disk
                 /\ queue' = queue
                 /\ fetched' = fetched]_vars

C15_Witness ==
    \E w \in Workers : wpc[w] = "skip" /\ wurl[w] \in startVisited

\* C16: the UPDATE of mark_visited runs only for a url fetched in this run
\* whose links have been extracted (the worker is at "mark"), and at most
\* once per url: the row it is applied to is not visited yet.
C16_MarkedOnceAfterFetch ==
    [][\A w \in Workers :
          Step(w, "mark", "markcommit")
              => /\ wurl[w] \in fetched
                 /\ wlinks[w] = parse_links(PageHrefs(wurl[w]), wurl[w])
                 /\ Row(wurl[w], 0) \in db]_vars

\* C17: no url returned by parse_links carries a fragment, so hrefs that
\* differ only in their fragment yield one url.
C17_LinksHaveNoFragment ==
    \A l \in parsed.links : l \notin FragUrls /\ Resource(l) = l

\* C18: unfinished_tasks equals the number of queued urls plus the number of
\* workers inside an iteration (a popped url is answered by one task_done).
C18_UnfinishedIsQueuedPlusInFlight ==
    unfinished = Len(queue) + Cardinality({w \in Workers : InIteration(w)})

C20_VisitedHasItsLinks ==
    \A u \in URLs :
        Row(u, 1) \in disk
            => \A l \in parse_links(PageHrefs(u), u) : HasRecord(disk, l)

====
